---------------------------- MODULE Spec2Model ----------------------------
(* State-machine model of frontend/app.js of DegreeFinder: the subject     *)
(* form, the institution -> faculty -> program selection with its program   *)
(* cache, and the compute request.  One action is one run of an event       *)
(* handler from the event (or from the completion of the request it         *)
(* awaits) up to its next await or its return: JavaScript runs a handler    *)
(* to its next suspension point without interleaving.                       *)
EXTENDS Integers, Sequences, FiniteSets, TLC

VARIABLES
  checked,               \* #institutions: checkbox value -> cb.checked
  checkOrder,            \* history: checked institutions, in the order the user checked them
  PROGRAM_CACHE,         \* app.js:131, { inst: Program[] }
  SELECTED_PROGRAM_IDS,  \* app.js:132, a Set, kept in insertion order
  FACULTY_SELECTIONS,    \* app.js:133, { inst: Set<string> }
  chipsRoot,             \* children of #program-chips: one wrapper per rendered group
  handlers,              \* suspended onInstitutionsChanged invocations, by slot
  gets,                  \* GET /programs requests in flight
  psy,                   \* #psy: the raw value of the psychometric field
  mandatoryRows,         \* children of #mandatory: the rows with their raw field values
  electiveChips,         \* children of #elective-chips: the chips with their selected class
  electiveRows,          \* children of #electives
  inflight,              \* POST /compute requests awaiting their response
  postCount,             \* history: number of POST /compute requests issued
  errorsShown,           \* children of #errors-list
  results                \* content of #results

selVars == <<checked, checkOrder, PROGRAM_CACHE, SELECTED_PROGRAM_IDS, FACULTY_SELECTIONS,
             chipsRoot, handlers, gets>>
formVars == <<psy, mandatoryRows, electiveChips, electiveRows>>
netVars == <<inflight, postCount>>

vars == <<selVars, formVars, netVars, errorsShown, results>>

-----------------------------------------------------------------------------
(* Bounds of the model *)

\* onInstitutionsChanged invocations that may be suspended at the same time
MaxHandlers == 2

-----------------------------------------------------------------------------
(* Generic helpers *)

Range(s) == {s[i] : i \in 1..Len(s)}

RECURSIVE SelectSeqIdx(_, _, _)
\* The subsequence of s at the indices i >= from with i in keep
SelectSeqIdx(s, keep, from) ==
  IF from > Len(s) THEN <<>>
  ELSE (IF from \in keep THEN <<s[from]>> ELSE <<>>) \o SelectSeqIdx(s, keep, from + 1)

\* s without its elements equal to x
Without(s, x) == SelectSeqIdx(s, {i \in 1..Len(s) : s[i] # x}, 1)

-----------------------------------------------------------------------------
(* The remote service's data (GET /institutions, GET /programs) *)

\* GET /institutions: the checkboxes of #institutions are created in this order
InstList == <<"technion", "huji">>
Insts == Range(InstList)

\* Faculty strings are sequences of characters, so that trim() is modelled
FacCS == <<"C", "S">>
FacCSpadded == <<" ", "C", "S", " ">>
FacEE == <<"E", "E">>
FacBlank == <<" ">>

Program(id, name, inst, fac) == [id |-> id, name |-> name, institution |-> inst, faculty |-> fac]

\* GET /programs?institution=inst. P1 is offered by both institutions.
Catalog(inst) ==
  IF inst = "technion"
  THEN << Program("P1", "cs", "technion", FacCSpadded),
          Program("P2", "ee", "technion", FacEE) >>
  ELSE << Program("P3", "prep", "huji", FacBlank),
          Program("P1", "cs", "huji", FacCS) >>

ProgramIds == UNION {{Catalog(i)[k].id : k \in 1..Len(Catalog(i))} : i \in Insts}

-----------------------------------------------------------------------------
(* Utils *)

hebrewInstitutionName(inst) ==
  CASE inst = "technion" -> "HaTechnion"
    [] inst = "huji" -> "HaUniversita HaIvrit"
    [] inst = "bgu" -> "Ben Gurion"
    [] OTHER -> inst

RECURSIVE TrimStart(_)
TrimStart(s) == IF s # <<>> /\ Head(s) = " " THEN TrimStart(Tail(s)) ELSE s

RECURSIVE TrimEnd(_)
TrimEnd(s) == IF s # <<>> /\ s[Len(s)] = " " THEN TrimEnd(SubSeq(s, 1, Len(s) - 1)) ELSE s

\* String.prototype.trim
Trim(s) == TrimEnd(TrimStart(s))

-----------------------------------------------------------------------------
(* Institutions and programs *)

RECURSIVE CheckedDownFrom(_, _, _)
CheckedDownFrom(list, cbs, i) ==
  IF i < 1 THEN <<>>
  ELSE (IF cbs[list[i]] THEN <<list[i]>> ELSE <<>>) \o CheckedDownFrom(list, cbs, i - 1)

\* Mutant of getSelectedInstitutions: the checkboxes are walked last to first
getSelectedInstitutions_reversed(cbs) == CheckedDownFrom(InstList, cbs, Len(InstList))

RECURSIVE CheckedFrom(_, _, _)
CheckedFrom(list, cbs, i) ==
  IF i > Len(list) THEN <<>>
  ELSE (IF cbs[list[i]] THEN <<list[i]>> ELSE <<>>) \o CheckedFrom(list, cbs, i + 1)

\* The values of the checked checkboxes, in document order
getSelectedInstitutions(cbs) == CheckedFrom(InstList, cbs, 1)

RECURSIVE UniqueFrom(_, _, _)
UniqueFrom(programs, i, seen) ==
  IF i > Len(programs) THEN <<>>
  ELSE LET f == Trim(programs[i].faculty) IN
       IF f # <<>> /\ f \notin seen
       THEN <<f>> \o UniqueFrom(programs, i + 1, seen \cup {f})
       ELSE UniqueFrom(programs, i + 1, seen)

\* The distinct non-empty trimmed faculties, in order of first appearance
uniqueFaculties(programs) == UniqueFrom(programs, 1, {})

\* Mutant of Chip: the chip carries the program's name where its id belongs
Chip_byName(p, inst, sel) ==
  [kind |-> "chip", programId |-> p.name, institution |-> inst, selected |-> p.name \in Range(sel)]

Chip(p, inst, sel) ==
  [kind |-> "chip", programId |-> p.id, institution |-> inst, selected |-> p.id \in Range(sel)]

Placeholder(kind, inst) ==
  [kind |-> kind, programId |-> "", institution |-> inst, selected |-> FALSE]

RECURSIVE ChipsFrom_untrimmed(_, _, _, _, _)
\* Mutant of ChipsFrom: the faculty is compared without trim()
ChipsFrom_untrimmed(inst, programs, facs, sel, i) ==
  IF i > Len(programs) THEN <<>>
  ELSE (IF programs[i].faculty \in facs THEN <<Chip(programs[i], inst, sel)>> ELSE <<>>)
       \o ChipsFrom_untrimmed(inst, programs, facs, sel, i + 1)

RECURSIVE ChipsFrom(_, _, _, _, _)
ChipsFrom(inst, programs, facs, sel, i) ==
  IF i > Len(programs) THEN <<>>
  ELSE (IF Trim(programs[i].faculty) \in facs THEN <<Chip(programs[i], inst, sel)>> ELSE <<>>)
       \o ChipsFrom(inst, programs, facs, sel, i + 1)

\* The children of the programs area after renderProgramsForSelectedFaculties;
\* fs is FACULTY_SELECTIONS, sel is SELECTED_PROGRAM_IDS
renderProgramsForSelectedFaculties(inst, programs, fs, sel) ==
  LET selectedFacs == IF inst \in DOMAIN fs THEN fs[inst] ELSE {} IN
  IF selectedFacs = {} THEN << Placeholder("info", inst) >>
  ELSE LET chips == ChipsFrom(inst, programs, selectedFacs, sel, 1) IN
       IF chips = <<>> THEN << Placeholder("empty", inst) >> ELSE chips

\* Mutant of EnsureFacultySet: line 194 without its test, a new Set at every render
EnsureFacultySet_reset(fs, inst) ==
  [i \in DOMAIN fs \cup {inst} |-> IF i = inst THEN {} ELSE fs[i]]

\* FACULTY_SELECTIONS after line 194
EnsureFacultySet(fs, inst) ==
  IF inst \in DOMAIN fs THEN fs ELSE [i \in DOMAIN fs \cup {inst} |-> IF i = inst THEN {} ELSE fs[i]]

\* The wrapper that renderInstitutionFaculties appends to the parent; by is the
\* slot of the handler invocation that renders it (a history field)
renderInstitutionFaculties(inst, programs, fs, sel, by) ==
  LET fs1 == EnsureFacultySet(fs, inst)
      faculties == uniqueFaculties(programs) IN
  [inst |-> inst,
   title |-> hebrewInstitutionName(inst),
   by |-> by,
   programs |-> programs,
   facultyList |-> [k \in 1..Len(faculties) |->
                      [value |-> faculties[k], checked |-> faculties[k] \in fs1[inst]]],
   programsArea |-> renderProgramsForSelectedFaculties(inst, programs, fs1, sel)]


-----------------------------------------------------------------------------
(* onInstitutionsChanged *)

NoHandler == [active |-> FALSE, insts |-> <<>>, idx |-> 0]

Slots == 1..MaxHandlers

\* PROGRAM_CACHE[inst] = programs
CachePut(cache, inst, programs) ==
  [i \in DOMAIN cache \cup {inst} |-> IF i = inst THEN programs ELSE cache[i]]

\* Line 168's test: the program list of inst has to be fetched
NeedsFetch(cache, inst) == inst \notin DOMAIN cache

RECURSIVE RunLoop(_, _, _, _, _, _, _)
\* The for loop of lines 167-170 run by the invocation in slot h from position
\* idx until it suspends on a fetch (the result's idx is the position it awaits)
\* or ends (idx = 0)
RunLoop(h, insts, idx, cache, fs, root, sel) ==
  IF idx > Len(insts) THEN [idx |-> 0, fs |-> fs, root |-> root]
  ELSE LET inst == insts[idx] IN
       IF NeedsFetch(cache, inst) THEN [idx |-> idx, fs |-> fs, root |-> root]
       ELSE RunLoop(h, insts, idx + 1, cache,
                    EnsureFacultySet(fs, inst),
                    Append(root, renderInstitutionFaculties(inst, cache[inst], fs, sel, h)),
                    sel)

NoResults == [kind |-> "none", req |-> 0]

\* What a run of the loop leaves behind: the rendered groups, and either a
\* suspended invocation with its GET in flight or a free slot
Settle(h, insts, r) ==
  /\ chipsRoot' = r.root
  /\ FACULTY_SELECTIONS' = r.fs
  /\ IF r.idx = 0
     THEN /\ handlers' = [handlers EXCEPT ![h] = NoHandler]
          /\ gets' = {g \in gets : g.h # h}
     ELSE /\ handlers' = [handlers EXCEPT ![h] = [active |-> TRUE, insts |-> insts, idx |-> r.idx]]
          /\ gets' = {g \in gets : g.h # h} \cup {[h |-> h, inst |-> insts[r.idx]]}

\* The change event of the checkbox of inst: the user toggles it and
\* onInstitutionsChanged runs to its first await or to its end
InstitutionChange(inst) ==
  /\ \E h \in Slots : ~handlers[h].active
  /\ LET h == CHOOSE x \in Slots : ~handlers[x].active /\ \A y \in Slots : ~handlers[y].active => x <= y
         cbs == [checked EXCEPT ![inst] = ~@]
         selectedInsts == getSelectedInstitutions(cbs) IN
     /\ checked' = cbs
     /\ checkOrder' = IF cbs[inst] THEN Append(checkOrder, inst) ELSE Without(checkOrder, inst)
     /\ errorsShown' = <<>>
     /\ results' = NoResults
     /\ IF selectedInsts = <<>>
        THEN /\ chipsRoot' = <<>>
             /\ UNCHANGED <<FACULTY_SELECTIONS, handlers, gets>>
        ELSE Settle(h, selectedInsts,
                    RunLoop(h, selectedInsts, 1, PROGRAM_CACHE, FACULTY_SELECTIONS, <<>>,
                            SELECTED_PROGRAM_IDS))
     /\ UNCHANGED <<PROGRAM_CACHE, SELECTED_PROGRAM_IDS, formVars, netVars>>

\* The GET awaited by the invocation in slot h is answered: line 168 stores the
\* list and the loop goes on from the institution it was waiting for
FetchResolve(h) ==
  /\ handlers[h].active
  /\ LET insts == handlers[h].insts
         inst == insts[handlers[h].idx]
         cache == CachePut(PROGRAM_CACHE, inst, Catalog(inst)) IN
     /\ PROGRAM_CACHE' = cache
     /\ Settle(h, insts,
               RunLoop(h, insts, handlers[h].idx, cache, FACULTY_SELECTIONS, chipsRoot,
                       SELECTED_PROGRAM_IDS))
  /\ UNCHANGED <<checked, checkOrder, SELECTED_PROGRAM_IDS, formVars, netVars, errorsShown, results>>

\* The GET awaited by the invocation in slot h fails (no response, or a status
\* that is not ok): fetchJSON throws and the invocation ends where it is
FetchReject(h) ==
  /\ handlers[h].active
  /\ handlers' = [handlers EXCEPT ![h] = NoHandler]
  /\ gets' = {g \in gets : g.h # h}
  /\ UNCHANGED <<checked, checkOrder, PROGRAM_CACHE, SELECTED_PROGRAM_IDS, FACULTY_SELECTIONS,
                 chipsRoot, formVars, netVars, errorsShown, results>>

-----------------------------------------------------------------------------
(* Faculty checkboxes and program chips *)

\* Lines 206-207
FacultySetAfter(set, fac, isChecked) == IF isChecked THEN set \cup {fac} ELSE set \ {fac}

\* Mutant of FacultyChange: the re-render also drops the selected ids that the
\* group no longer shows
FacultyChange_pruning(w, k) ==
  /\ w \in 1..Len(chipsRoot)
  /\ k \in 1..Len(chipsRoot[w].facultyList)
  /\ LET wr == chipsRoot[w]
         cb == [wr.facultyList[k] EXCEPT !.checked = ~@]
         fs == [FACULTY_SELECTIONS EXCEPT ![wr.inst] = FacultySetAfter(@, cb.value, cb.checked)]
         area == renderProgramsForSelectedFaculties(wr.inst, wr.programs, fs, SELECTED_PROGRAM_IDS)
         shown == {area[c].programId : c \in 1..Len(area)} IN
     /\ FACULTY_SELECTIONS' = fs
     /\ chipsRoot' = [chipsRoot EXCEPT ![w] = [wr EXCEPT !.facultyList[k] = cb, !.programsArea = area]]
     /\ SELECTED_PROGRAM_IDS' = SelectSeqIdx(SELECTED_PROGRAM_IDS,
                                  {i \in 1..Len(SELECTED_PROGRAM_IDS) : SELECTED_PROGRAM_IDS[i] \in shown}, 1)
  /\ UNCHANGED <<checked, checkOrder, PROGRAM_CACHE, handlers, gets,
                 formVars, netVars, errorsShown, results>>

\* The change event of the k-th faculty checkbox of the w-th rendered group
FacultyChange(w, k) ==
  /\ w \in 1..Len(chipsRoot)
  /\ k \in 1..Len(chipsRoot[w].facultyList)
  /\ LET wr == chipsRoot[w]
         cb == [wr.facultyList[k] EXCEPT !.checked = ~@]
         fs == [FACULTY_SELECTIONS EXCEPT ![wr.inst] = FacultySetAfter(@, cb.value, cb.checked)] IN
     /\ FACULTY_SELECTIONS' = fs
     /\ chipsRoot' = [chipsRoot EXCEPT ![w] =
                        [wr EXCEPT !.facultyList[k] = cb,
                                   !.programsArea = renderProgramsForSelectedFaculties(
                                                      wr.inst, wr.programs, fs, SELECTED_PROGRAM_IDS)]]
  /\ UNCHANGED <<checked, checkOrder, PROGRAM_CACHE, SELECTED_PROGRAM_IDS, handlers, gets,
                 formVars, netVars, errorsShown, results>>

\* Lines 254-255: SELECTED_PROGRAM_IDS after the click left the chip selected or not
SelectionAfterClick(sel, id, nowSelected) ==
  IF nowSelected THEN (IF id \in Range(sel) THEN sel ELSE Append(sel, id))
  ELSE Without(sel, id)

\* A click on the c-th child of the programs area of the w-th rendered group
ProgramChipClick(w, c) ==
  /\ w \in 1..Len(chipsRoot)
  /\ c \in 1..Len(chipsRoot[w].programsArea)
  /\ chipsRoot[w].programsArea[c].kind = "chip"
  /\ LET chip == [chipsRoot[w].programsArea[c] EXCEPT !.selected = ~@] IN
     /\ chipsRoot' = [chipsRoot EXCEPT ![w].programsArea[c] = chip]
     /\ SELECTED_PROGRAM_IDS' = SelectionAfterClick(SELECTED_PROGRAM_IDS, chip.programId, chip.selected)
  /\ UNCHANGED <<checked, checkOrder, PROGRAM_CACHE, FACULTY_SELECTIONS, handlers, gets,
                 formVars, netVars, errorsShown, results>>

-----------------------------------------------------------------------------
(* Numbers and their parsing.  A raw field value is a sequence of            *)
(* characters.  A number is [nan, val]; parseFloat's val counts tenths, so   *)
(* the raw scores of the model carry at most one digit after the point.      *)

DigitChars == <<"0", "1", "2", "3", "4", "5", "6", "7", "8", "9">>

IsDigit(c) == \E d \in 1..10 : DigitChars[d] = c

DigitVal(c) == (CHOOSE d \in 1..10 : DigitChars[d] = c) - 1

NaN == [nan |-> TRUE, val |-> 0]

Num(v) == [nan |-> FALSE, val |-> v]

RECURSIVE DigitsLen(_)
\* The length of the run of digits that s starts with
DigitsLen(s) == IF s # <<>> /\ IsDigit(Head(s)) THEN 1 + DigitsLen(Tail(s)) ELSE 0

RECURSIVE DigitsVal(_, _)
\* The value of the digits s, read after the digits of value acc
DigitsVal(s, acc) == IF s = <<>> THEN acc ELSE DigitsVal(Tail(s), 10 * acc + DigitVal(Head(s)))

DropN(s, n) == SubSeq(s, n + 1, Len(s))

\* parseInt(raw, 10): leading white space, a sign, then the digits up to the
\* first character that is none; NaN when there is no digit
parseInt(raw) ==
  LET t == TrimStart(raw)
      neg == t # <<>> /\ Head(t) = "-"
      u == IF t # <<>> /\ Head(t) \in {"-", "+"} THEN Tail(t) ELSE t
      n == DigitsLen(u) IN
  IF n = 0 THEN NaN
  ELSE LET v == DigitsVal(SubSeq(u, 1, n), 0) IN Num(IF neg THEN 0 - v ELSE v)

\* parseFloat(raw), in tenths: as parseInt, with the digit after a decimal point
parseFloat(raw) ==
  LET t == TrimStart(raw)
      neg == t # <<>> /\ Head(t) = "-"
      u == IF t # <<>> /\ Head(t) \in {"-", "+"} THEN Tail(t) ELSE t
      n == DigitsLen(u)
      rest == DropN(u, n)
      frac == IF rest # <<>> /\ Head(rest) = "." THEN Tail(rest) ELSE <<>>
      m == DigitsLen(frac) IN
  IF n = 0 /\ m = 0 THEN NaN
  ELSE LET v == 10 * DigitsVal(SubSeq(u, 1, n), 0) + (IF m = 0 THEN 0 ELSE DigitVal(frac[1]))
       IN Num(IF neg THEN 0 - v ELSE v)

RECURSIVE StringOfNat(_)
\* String(u) of a natural number
StringOfNat(u) ==
  IF u < 10 THEN <<DigitChars[u + 1]>> ELSE Append(StringOfNat(u \div 10), DigitChars[(u % 10) + 1])

-----------------------------------------------------------------------------
(* Subjects UI *)

\* GET /subjects; a display_name of "" is an absent one
SubjectDef(name, display, allowed) == [name |-> name, display_name |-> display, allowed_units |-> allowed]

Subjects ==
  [mandatory |-> << SubjectDef("math", "Math", <<4, 5>>), SubjectDef("english", "", <<5>>) >>,
   electives |-> << SubjectDef("physics", "Physics", <<5>>) >>]

\* m.display_name || m.name
DisplayOf(def) == IF def.display_name # "" THEN def.display_name ELSE def.name

\* The row of inputRow, with the raw values of its select and its score input
inputRow(internalName, displayName, allowedUnits, isMandatory) ==
  [name |-> internalName, display |-> displayName, allowed |-> allowedUnits,
   mandatory |-> isMandatory, units |-> <<>>, score |-> <<>>]

\* The option values of unitsSelect
UnitOptions(allowedUnits) == {<<>>} \cup {StringOfNat(allowedUnits[k]) : k \in 1..Len(allowedUnits)}

Msg(kind, arg) == [kind |-> kind, arg |-> arg]

Entry(name, units, score) == [name |-> name, units |-> units, score |-> score]

\* Mutant of Includes: any number passes for an allowed unit
Includes_anyNumber(allowed, u) == ~u.nan

\* allowed.includes(u)
Includes(allowed, u) == ~u.nan /\ u.val \in Range(allowed)

\* s is a number from 0 to 100 (1000 tenths)
ScoreInRange(s) == ~s.nan /\ s.val >= 0 /\ s.val <= 1000

\* Mutant of RequiredErrors: a row without a unit is reported as wholly missing
RequiredErrors_wholeRow(r) ==
  IF r.units = <<>> THEN << Msg("unitsMissing", r.display), Msg("scoreMissing", r.display) >>
  ELSE (IF ~Includes(r.allowed, parseInt(r.units)) THEN << Msg("unitsInvalid", r.display) >> ELSE <<>>)
       \o
       (IF r.score = <<>> THEN << Msg("scoreMissing", r.display) >>
        ELSE IF ~ScoreInRange(parseFloat(r.score)) THEN << Msg("scoreRange", r.display) >>
        ELSE <<>>)

\* The errors lines 76-84 push for one row
RequiredErrors(r) ==
  (IF r.units = <<>> THEN << Msg("unitsMissing", r.display) >>
   ELSE IF ~Includes(r.allowed, parseInt(r.units)) THEN << Msg("unitsInvalid", r.display) >>
   ELSE <<>>)
  \o
  (IF r.score = <<>> THEN << Msg("scoreMissing", r.display) >>
   ELSE IF ~ScoreInRange(parseFloat(r.score)) THEN << Msg("scoreRange", r.display) >>
   ELSE <<>>)

\* Mutant of readRow: a mandatory row with an invalid value yields no entry
readRow_suppressing(r, required) ==
  IF required
  THEN [subjects |-> IF r.units # <<>> /\ r.score # <<>> /\ RequiredErrors(r) = <<>>
                     THEN << Entry(r.name, parseInt(r.units), parseFloat(r.score)) >>
                     ELSE <<>>,
        errors |-> RequiredErrors(r)]
  ELSE IF r.units # <<>> /\ r.score # <<>>
       THEN LET u == parseInt(r.units)
                sc == parseFloat(r.score) IN
            IF Includes(r.allowed, u) /\ ScoreInRange(sc)
            THEN [subjects |-> << Entry(r.name, u, sc) >>, errors |-> <<>>]
            ELSE [subjects |-> <<>>, errors |-> << Msg("invalidValues", r.display) >>]
       ELSE [subjects |-> <<>>, errors |-> <<>>]

\* What lines 76-94 add for one row: its entries and its errors
readRow(r, required) ==
  IF required
  THEN [subjects |-> IF r.units # <<>> /\ r.score # <<>>
                     THEN << Entry(r.name, parseInt(r.units), parseFloat(r.score)) >>
                     ELSE <<>>,
        errors |-> RequiredErrors(r)]
  ELSE IF r.units # <<>> /\ r.score # <<>>
       THEN LET u == parseInt(r.units)
                sc == parseFloat(r.score) IN
            IF Includes(r.allowed, u) /\ ScoreInRange(sc)
            THEN [subjects |-> << Entry(r.name, u, sc) >>, errors |-> <<>>]
            ELSE [subjects |-> <<>>, errors |-> << Msg("invalidValues", r.display) >>]
       ELSE [subjects |-> <<>>, errors |-> <<>>]

RECURSIVE readSubjects(_, _)
\* readSubjects over the rows of a container, in document order
readSubjects(rows, required) ==
  IF rows = <<>> THEN [subjects |-> <<>>, errors |-> <<>>]
  ELSE LET first == readRow(Head(rows), required)
           rest == readSubjects(Tail(rows), required) IN
       [subjects |-> first.subjects \o rest.subjects, errors |-> first.errors \o rest.errors]

\* renderSubjects: the mandatory rows
MandatoryRowsOf(subjects) ==
  [k \in 1..Len(subjects.mandatory) |->
     inputRow(subjects.mandatory[k].name, DisplayOf(subjects.mandatory[k]),
              subjects.mandatory[k].allowed_units, TRUE)]

\* renderSubjects: the elective chips, none selected
ElectiveChipsOf(subjects) ==
  [k \in 1..Len(subjects.electives) |-> [def |-> subjects.electives[k], selected |-> FALSE]]

\* Mutant of RowsAfterDeselect: the row stays in #electives
RowsAfterDeselect_kept(rows, name) == rows

\* The rows of #electives after the onclick of a chip that was selected
RowsAfterDeselect(rows, name) == SelectSeqIdx(rows, {i \in 1..Len(rows) : rows[i].name # name}, 1)

\* A click on the k-th elective chip (lines 117-125)
ElectiveChipClick(k) ==
  /\ k \in 1..Len(electiveChips)
  /\ LET chip == electiveChips[k]
         e == chip.def IN
     /\ electiveChips' = [electiveChips EXCEPT ![k].selected = ~@]
     /\ electiveRows' = IF chip.selected
                        THEN RowsAfterDeselect(electiveRows, e.name)
                        ELSE Append(electiveRows, inputRow(e.name, DisplayOf(e), e.allowed_units, FALSE))
  /\ UNCHANGED <<selVars, psy, mandatoryRows, netVars, errorsShown, results>>

\* The rows with the fields of the row of this name set to these raw values
Typed(rows, name, field) ==
  [k \in 1..Len(rows) |-> IF rows[k].name = name
                          THEN [rows[k] EXCEPT !.units = field.units, !.score = field.score]
                          ELSE rows[k]]

\* The user sets the psychometric field. No handler listens to the fields of
\* the form: their values are read when #compute is clicked.
TypePsy(raw) ==
  /\ psy' = raw
  /\ UNCHANGED <<selVars, mandatoryRows, electiveChips, electiveRows, netVars, errorsShown, results>>

\* The user sets the select and the score input of the row of a subject
TypeRow(name, field) ==
  /\ \E k \in 1..Len(mandatoryRows \o electiveRows) : (mandatoryRows \o electiveRows)[k].name = name
  /\ mandatoryRows' = Typed(mandatoryRows, name, field)
  /\ electiveRows' = Typed(electiveRows, name, field)
  /\ UNCHANGED <<selVars, psy, electiveChips, netVars, errorsShown, results>>

-----------------------------------------------------------------------------
(* Compute *)

\* Mutant of HeadErrors: the psychometric field is tested before the institutions
HeadErrors_psyFirst(insts, psyRaw) ==
  (IF psyRaw = <<>> THEN << Msg("psyMissing", "") >>
   ELSE LET p == parseInt(psyRaw) IN
        IF p.nan \/ p.val < 200 \/ p.val > 800 THEN << Msg("psyRange", "") >> ELSE <<>>)
  \o
  (IF insts = <<>> THEN << Msg("noInstitution", "") >> ELSE <<>>)

\* Lines 275-282: the errors of the institutions and of the psychometric field
HeadErrors(insts, psyRaw) ==
  (IF insts = <<>> THEN << Msg("noInstitution", "") >> ELSE <<>>)
  \o
  (IF psyRaw = <<>> THEN << Msg("psyMissing", "") >>
   ELSE LET p == parseInt(psyRaw) IN
        IF p.nan \/ p.val < 200 \/ p.val > 800 THEN << Msg("psyRange", "") >> ELSE <<>>)

\* Mutant of CollectErrors: the errors of the mandatory rows are left out
CollectErrors_noMandatory(insts, psyRaw, mandatoryRes, electiveRes) ==
  HeadErrors(insts, psyRaw) \o electiveRes.errors

\* Line 286: the collected errors
CollectErrors(insts, psyRaw, mandatoryRes, electiveRes) ==
  HeadErrors(insts, psyRaw) \o mandatoryRes.errors \o electiveRes.errors

\* Mutant of getSelectedProgramIds: only the ids of the chips on display
getSelectedProgramIds_rendered(sel) ==
  SelectSeqIdx(sel, {i \in 1..Len(sel) :
                       \E w \in 1..Len(chipsRoot) : \E c \in 1..Len(chipsRoot[w].programsArea) :
                         chipsRoot[w].programsArea[c].programId = sel[i]}, 1)

\* SELECTED_PROGRAM_IDS as an array, in insertion order
getSelectedProgramIds(sel) == sel

\* Lines 289-294
Payload(insts, psyRaw, mandatoryRes, electiveRes, sel) ==
  [institutions |-> insts,
   psychometric_total |-> parseInt(psyRaw),
   subjects |-> mandatoryRes.subjects \o electiveRes.subjects,
   program_ids |-> getSelectedProgramIds(sel)]

\* POST /compute requests the model lets the page issue
MaxPosts == 2

\* A click on #compute: onCompute to its await of the POST, or to its return
\* on errors
OnCompute ==
  LET insts == getSelectedInstitutions(checked)
      mandatoryRes == readSubjects(mandatoryRows, TRUE)
      electiveRes == readSubjects(electiveRows, FALSE)
      errors == CollectErrors(insts, psy, mandatoryRes, electiveRes) IN
  /\ IF errors # <<>>
     THEN /\ errorsShown' = errors
          /\ UNCHANGED netVars
     ELSE /\ postCount < MaxPosts
          /\ errorsShown' = <<>>
          /\ postCount' = postCount + 1
          /\ inflight' = inflight \cup
                {[id |-> postCount + 1,
                  payload |-> Payload(insts, psy, mandatoryRes, electiveRes, SELECTED_PROGRAM_IDS)]}
  /\ UNCHANGED <<selVars, formVars, results>>

\* What may come of a POST /compute: a success response with result cards or
\* with none, a success response whose body is not JSON, a non-success
\* response, or no response
Outcomes == {"cards", "empty", "unparsable", "notOk", "failed"}

\* The response of each outcome: res.ok, res.status, the raw body res.text()
\* gives, whether res.json() gives a value, and the message of the error that
\* fetch or res.json() throws
Response(outcome) ==
  CASE outcome = "notOk" ->
         [ok |-> FALSE, status |-> 500, text |-> "Internal Server Error", json |-> FALSE, message |-> ""]
    [] outcome = "failed" ->
         [ok |-> FALSE, status |-> 0, text |-> "", json |-> FALSE, message |-> "Failed to fetch"]
    [] outcome = "unparsable" ->
         [ok |-> TRUE, status |-> 200, text |-> "<html>", json |-> FALSE, message |-> "Unexpected token <"]
    [] OTHER ->
         [ok |-> TRUE, status |-> 200, text |-> outcome, json |-> TRUE, message |-> ""]

\* Line 304: the one error of a non-success response, with res.status and the raw body
ServerError(status, txt) == [kind |-> "server", status |-> status, arg |-> txt]

\* Mutant of renderResults: the placeholder whatever the data
renderResults_placeholder(outcome, id) == [kind |-> "placeholder", req |-> id]

\* renderResults(data) for the answer to request id: cards, or the
\* placeholder when the data is no array or is empty
renderResults(outcome, id) ==
  IF outcome = "cards" THEN [kind |-> "cards", req |-> id] ELSE [kind |-> "placeholder", req |-> id]

\* Mutant of ComputeRespond: the completion of a request that is not the last
\* one issued changes nothing on the page
ComputeRespond_latestOnly(req, outcome) ==
  /\ req \in inflight
  /\ inflight' = inflight \ {req}
  /\ LET res == Response(outcome) IN
     IF req.id # postCount
     THEN UNCHANGED <<errorsShown, results>>
     ELSE IF outcome = "failed"
     THEN errorsShown' = << Msg("comm", res.message) >> /\ UNCHANGED results
     ELSE IF ~res.ok
     THEN errorsShown' = << ServerError(res.status, res.text) >> /\ UNCHANGED results
     ELSE IF ~res.json
     THEN errorsShown' = << Msg("comm", res.message) >> /\ UNCHANGED results
     ELSE results' = renderResults(outcome, req.id) /\ UNCHANGED errorsShown
  /\ UNCHANGED <<selVars, formVars, postCount>>

\* onCompute from the completion of its POST to its end (lines 302-310)
ComputeRespond(req, outcome) ==
  /\ req \in inflight
  /\ inflight' = inflight \ {req}
  /\ LET res == Response(outcome) IN
     IF outcome = "failed"
     THEN errorsShown' = << Msg("comm", res.message) >> /\ UNCHANGED results
     ELSE IF ~res.ok
     THEN errorsShown' = << ServerError(res.status, res.text) >> /\ UNCHANGED results
     ELSE IF ~res.json
     THEN errorsShown' = << Msg("comm", res.message) >> /\ UNCHANGED results
     ELSE results' = renderResults(outcome, req.id) /\ UNCHANGED errorsShown
  /\ UNCHANGED <<selVars, formVars, postCount>>

-----------------------------------------------------------------------------
(* Specifications *)

EmptyMap == [i \in {} |-> {}]

Init ==
  /\ checked = [i \in Insts |-> FALSE]
  /\ checkOrder = <<>>
  /\ PROGRAM_CACHE = EmptyMap
  /\ SELECTED_PROGRAM_IDS = <<>>
  /\ FACULTY_SELECTIONS = EmptyMap
  /\ chipsRoot = <<>>
  /\ handlers = [h \in Slots |-> NoHandler]
  /\ gets = {}
  /\ psy = <<>>
  /\ mandatoryRows = MandatoryRowsOf(Subjects)
  /\ electiveChips = ElectiveChipsOf(Subjects)
  /\ electiveRows = <<>>
  /\ inflight = {}
  /\ postCount = 0
  /\ errorsShown = <<>>
  /\ results = NoResults

\* What the user types: raw values of the fields (model inputs)
PsyInputs == { <<>>, <<"a", "b", "c">>, <<"1", "9", "9">>, <<"6", "5", "0">>, <<"8", "0", "0", ".", "5">> }

ScoreInputs(name) ==
  CASE name = "math" -> { <<>>, <<"7", "7">>, <<"1", "0", "0", ".", "5">> }
    [] name = "english" -> { <<>>, <<"9", "0">> }
    [] OTHER -> { <<>>, <<"8", "0">>, <<"-", "1">> }

\* The ways to fill the row of a subject: the select offers "" and each allowed
\* unit, of which the user picks "" or the last one
FieldInputs(def) ==
  [units : { <<>>, StringOfNat(def.allowed_units[Len(def.allowed_units)]) },
   score : ScoreInputs(def.name)]

\* The value of each field of a form filled without mistakes
ValidField(name) ==
  [units |-> <<"5">>,
   score |-> CASE name = "math" -> <<"7", "7">> [] name = "english" -> <<"9", "0">> [] OTHER -> <<"8", "0">>]

SubjectNames ==
  {Subjects.mandatory[k].name : k \in 1..Len(Subjects.mandatory)}
  \cup {Subjects.electives[k].name : k \in 1..Len(Subjects.electives)}

RECURSIVE FilledRows(_)
\* Every way to fill these rows
FilledRows(rows) ==
  IF rows = <<>> THEN { <<>> }
  ELSE LET r == Head(rows)
           def == [name |-> r.name, allowed_units |-> r.allowed] IN
       { <<[r EXCEPT !.units = f.units, !.score = f.score]>> \o rest :
           f \in FieldInputs(def), rest \in FilledRows(Tail(rows)) }

\* The page once the user has filled the form, each elective chip clicked or
\* not: typing runs no code of the page
InitForm ==
  /\ checked = [i \in Insts |-> FALSE]
  /\ checkOrder = <<>>
  /\ PROGRAM_CACHE = EmptyMap
  /\ SELECTED_PROGRAM_IDS = <<>>
  /\ FACULTY_SELECTIONS = EmptyMap
  /\ chipsRoot = <<>>
  /\ handlers = [h \in Slots |-> NoHandler]
  /\ gets = {}
  /\ psy = <<>>
  /\ mandatoryRows \in FilledRows(MandatoryRowsOf(Subjects))
  /\ \E on \in SUBSET (1..Len(Subjects.electives)) :
       /\ electiveChips = [k \in 1..Len(Subjects.electives) |->
                             [def |-> Subjects.electives[k], selected |-> k \in on]]
       /\ electiveRows \in FilledRows(
            SelectSeqIdx([k \in 1..Len(Subjects.electives) |->
                            inputRow(Subjects.electives[k].name, DisplayOf(Subjects.electives[k]),
                                     Subjects.electives[k].allowed_units, FALSE)], on, 1))
  /\ inflight = {}
  /\ postCount = 0
  /\ errorsShown = <<>>
  /\ results = NoResults

NoHandlerPending == \A h \in Slots : ~handlers[h].active

\* The selection subsystem: every interleaving of toggles, clicks and fetch
\* completions, failed fetches included
NextSel ==
  \/ \E inst \in Insts : InstitutionChange(inst)
  \/ \E h \in Slots : FetchResolve(h)
  \/ \E h \in Slots : FetchReject(h)
  \/ \E w \in 1..Len(chipsRoot) : \E k \in 1..Len(chipsRoot[w].facultyList) : FacultyChange(w, k)
  \/ \E w \in 1..Len(chipsRoot) : \E c \in 1..Len(chipsRoot[w].programsArea) : ProgramChipClick(w, c)

SpecSel == Init /\ [][NextSel]_vars

\* The selection subsystem when every fetch is answered
NextOk ==
  \/ \E inst \in Insts : InstitutionChange(inst)
  \/ \E h \in Slots : FetchResolve(h)
  \/ \E w \in 1..Len(chipsRoot) : \E k \in 1..Len(chipsRoot[w].facultyList) : FacultyChange(w, k)
  \/ \E w \in 1..Len(chipsRoot) : \E c \in 1..Len(chipsRoot[w].programsArea) : ProgramChipClick(w, c)

SpecOk == Init /\ [][NextOk]_vars

\* The form and the compute request over every way to fill the form; the user
\* toggles the first institution, when no program list is being fetched
NextForm ==
  \/ \E raw \in PsyInputs : TypePsy(raw)
  \/ OnCompute
  \/ \E k \in 1..Len(electiveChips) : ElectiveChipClick(k)
  \/ \E inst \in {InstList[1]} : NoHandlerPending /\ InstitutionChange(inst)
  \/ \E h \in Slots : FetchResolve(h)
  \/ \E req \in inflight : \E outcome \in Outcomes : ComputeRespond(req, outcome)

SpecForm == InitForm /\ [][NextForm]_vars

\* The whole page with fields that are blank or filled without mistakes; the
\* user toggles an institution when no program list is being fetched, and waits
\* for the answer of a compute request
NextAll ==
  \/ \E raw \in { <<>>, <<"6", "5", "0">> } : inflight = {} /\ TypePsy(raw)
  \/ \E name \in SubjectNames : \E field \in {ValidField(name)} : inflight = {} /\ TypeRow(name, field)
  \/ inflight = {} /\ OnCompute
  \/ \E k \in 1..Len(electiveChips) : inflight = {} /\ ElectiveChipClick(k)
  \/ \E inst \in Insts : inflight = {} /\ NoHandlerPending /\ InstitutionChange(inst)
  \/ \E h \in Slots : FetchResolve(h)
  \/ \E w \in 1..Len(chipsRoot) : \E k \in 1..Len(chipsRoot[w].facultyList) :
        inflight = {} /\ FacultyChange(w, k)
  \/ \E w \in 1..Len(chipsRoot) : \E c \in 1..Len(chipsRoot[w].programsArea) :
        inflight = {} /\ ProgramChipClick(w, c)
  \/ \E req \in inflight : \E outcome \in Outcomes : ComputeRespond(req, outcome)

SpecAll == Init /\ [][NextAll]_vars

\* Raw values of a row's fields for readSubjects as a function of the rows it
\* finds: those the controls offer, and those only a script or an edited page
\* can leave in them (a unit that is no option, a score that is no number),
\* which readSubjects tests for all the same
RawUnits == { <<>>, <<"5">>, <<"3">> }

RawScores == { <<>>, <<"7", "7">>, <<"1", "0", "0", ".", "5">>, <<"a", "b", "c">> }

RECURSIVE RawRows(_)
\* Every way to leave raw values in these rows
RawRows(rows) ==
  IF rows = <<>> THEN { <<>> }
  ELSE { <<[Head(rows) EXCEPT !.units = u, !.score = s]>> \o rest :
           u \in RawUnits, s \in RawScores, rest \in RawRows(Tail(rows)) }

\* The page with any raw values in the rows of the form
InitRead ==
  /\ checked = [i \in Insts |-> FALSE]
  /\ checkOrder = <<>>
  /\ PROGRAM_CACHE = EmptyMap
  /\ SELECTED_PROGRAM_IDS = <<>>
  /\ FACULTY_SELECTIONS = EmptyMap
  /\ chipsRoot = <<>>
  /\ handlers = [h \in Slots |-> NoHandler]
  /\ gets = {}
  /\ psy = <<>>
  /\ mandatoryRows \in RawRows(MandatoryRowsOf(Subjects))
  /\ \E on \in SUBSET (1..Len(Subjects.electives)) :
       /\ electiveChips = [k \in 1..Len(Subjects.electives) |->
                             [def |-> Subjects.electives[k], selected |-> k \in on]]
       /\ electiveRows \in RawRows(
            SelectSeqIdx([k \in 1..Len(Subjects.electives) |->
                            inputRow(Subjects.electives[k].name, DisplayOf(Subjects.electives[k]),
                                     Subjects.electives[k].allowed_units, FALSE)], on, 1))
  /\ inflight = {}
  /\ postCount = 0
  /\ errorsShown = <<>>
  /\ results = NoResults

\* readSubjects and onCompute over those rows: the user sets the psychometric
\* field, toggles the first institution and clicks #compute, one request at a
\* time
NextRead ==
  \/ \E raw \in { <<>>, <<"6", "5", "0">> } : inflight = {} /\ TypePsy(raw)
  \/ inflight = {} /\ OnCompute
  \/ \E inst \in {InstList[1]} : inflight = {} /\ NoHandlerPending /\ InstitutionChange(inst)
  \/ \E h \in Slots : FetchResolve(h)
  \/ \E req \in inflight : \E outcome \in Outcomes : ComputeRespond(req, outcome)

SpecRead == InitRead /\ [][NextRead]_vars

\* Answers of GET /subjects for the elective chips: the one above, and one
\* with a second elective; subject names are the keys of the service's list
SubjectAnswers ==
  { Subjects,
    [Subjects EXCEPT !.electives = Append(@, SubjectDef("chemistry", "", <<4, 5>>))] }

\* The page after main() for one of these answers
InitSubj ==
  /\ checked = [i \in Insts |-> FALSE]
  /\ checkOrder = <<>>
  /\ PROGRAM_CACHE = EmptyMap
  /\ SELECTED_PROGRAM_IDS = <<>>
  /\ FACULTY_SELECTIONS = EmptyMap
  /\ chipsRoot = <<>>
  /\ handlers = [h \in Slots |-> NoHandler]
  /\ gets = {}
  /\ psy = <<>>
  /\ \E s \in SubjectAnswers :
       /\ mandatoryRows = MandatoryRowsOf(s)
       /\ electiveChips = ElectiveChipsOf(s)
  /\ electiveRows = <<>>
  /\ inflight = {}
  /\ postCount = 0
  /\ errorsShown = <<>>
  /\ results = NoResults

\* The subjects form: the user clicks elective chips and fills fields
NextSubj ==
  \/ \E k \in 1..Len(electiveChips) : ElectiveChipClick(k)
  \/ \E name \in {(mandatoryRows \o electiveRows)[k].name : k \in 1..Len(mandatoryRows \o electiveRows)} :
        \E field \in {ValidField(name)} : TypeRow(name, field)
  \/ \E raw \in PsyInputs : TypePsy(raw)

SpecSubj == InitSubj /\ [][NextSubj]_vars

-----------------------------------------------------------------------------
(* Properties of the selection subsystem *)

\* The institutions of the rendered groups, in their order in #program-chips
GroupInsts == [w \in 1..Len(chipsRoot) |-> chipsRoot[w].inst]

\* The program ids of the chips of a programs area, in order
VisibleIds(area) ==
  LET chips == SelectSeq(area, LAMBDA c : c.kind = "chip") IN
  [k \in 1..Len(chips) |-> chips[k].programId]

\* The position of an institution among the checkboxes
DocPos(inst) == CHOOSE k \in 1..Len(InstList) : InstList[k] = inst

\* The institution whose program list the invocation in slot h awaits
Awaited(h) == handlers[h].insts[handlers[h].idx]

\* The institutions for which a GET /programs has been issued, when every GET
\* is answered: those whose list is cached or whose GET is in flight
Fetched == DOMAIN PROGRAM_CACHE \cup {g.inst : g \in gets}

\* C3 (as claimed): at most one GET /programs is issued per institution, also
\* when a checkbox is toggled while a fetch is pending, and PROGRAM_CACHE[inst],
\* once set, is never assigned again: every GET a step issues is for an
\* institution not fetched before, and no answer is stored over a cached list.
C3_OneFetchPerInstitution ==
  [][ /\ \A g \in gets' \ gets : g.inst \notin Fetched
      /\ \A h \in Slots : (handlers[h].active /\ FetchResolve(h)) => Awaited(h) \notin DOMAIN PROGRAM_CACHE
      /\ \A i \in DOMAIN PROGRAM_CACHE : i \in DOMAIN PROGRAM_CACHE' /\ PROGRAM_CACHE'[i] = PROGRAM_CACHE[i]
    ]_vars

\* The program list the claim C4 expects to be visible for an institution
ExpectedVisible(inst, cache, fs) ==
  IF fs[inst] = {} THEN <<>>
  ELSE LET shown == SelectSeq(cache[inst], LAMBDA p : Trim(p.faculty) \in fs[inst]) IN
       [k \in 1..Len(shown) |-> shown[k].id]

AreaAsExpected(wr) ==
  VisibleIds(wr.programsArea) = ExpectedVisible(wr.inst, PROGRAM_CACHE', FACULTY_SELECTIONS')

\* C4: every programs area that a step renders (the groups rendered after an
\* institution toggle, the groups a resumed handler appends, the area of the
\* group whose faculty checkbox changed) shows no program if
\* FACULTY_SELECTIONS[inst] is empty and otherwise exactly the cached programs of
\* the institution whose trimmed faculty is in FACULTY_SELECTIONS[inst], in
\* fetch order, whatever the other institutions' state.
C4_VisiblePrograms ==
  [][ /\ checked' # checked => \A w \in 1..Len(chipsRoot') : AreaAsExpected(chipsRoot'[w])
      /\ \A w \in 1..Len(chipsRoot') :
           (checked' = checked /\ w > Len(chipsRoot)) => AreaAsExpected(chipsRoot'[w])
      /\ \A w \in 1..Len(chipsRoot) :
           (Len(chipsRoot') = Len(chipsRoot) /\ chipsRoot'[w].facultyList # chipsRoot[w].facultyList)
             => AreaAsExpected(chipsRoot'[w])
    ]_vars

\* C4's case: the technion group shows exactly P1 (faculty " CS ") for the
\* selection {CS}, next to a huji group with no faculty checked
C4_Witness ==
  \E w, v \in 1..Len(chipsRoot) :
    /\ chipsRoot[w].inst = "technion" /\ chipsRoot[v].inst = "huji"
    /\ FACULTY_SELECTIONS["technion"] = {FacCS} /\ FACULTY_SELECTIONS["huji"] = {}
    /\ VisibleIds(chipsRoot[w].programsArea) = <<"P1">>
    /\ VisibleIds(chipsRoot[v].programsArea) = <<>>

\* C5: an id leaves SELECTED_PROGRAM_IDS only in a step that is a click on a
\* chip of that program; faculty and institution toggles and fetch completions
\* keep every selected id.
C5_SelectionPersists ==
  [][ \A id \in Range(SELECTED_PROGRAM_IDS) \ Range(SELECTED_PROGRAM_IDS') :
        \E w \in 1..Len(chipsRoot) : \E c \in 1..Len(chipsRoot[w].programsArea) :
          chipsRoot[w].programsArea[c].programId = id /\ ProgramChipClick(w, c)
    ]_vars

\* C5's case: P2 is selected while technion's group shows no chip for it, its
\* faculty checkbox having been unchecked again
C5_Witness ==
  /\ "P2" \in Range(SELECTED_PROGRAM_IDS)
  /\ \E w \in 1..Len(chipsRoot) :
       chipsRoot[w].inst = "technion" /\ FacEE \notin FACULTY_SELECTIONS["technion"]
       /\ "P2" \notin Range(VisibleIds(chipsRoot[w].programsArea))

\* The faculty checkboxes of a group show FACULTY_SELECTIONS of its institution
FacultiesRestored(wr, fs) ==
  \A k \in 1..Len(wr.facultyList) : wr.facultyList[k].checked <=> wr.facultyList[k].value \in fs[wr.inst]

\* C6: a step that unchecks an institution changes neither PROGRAM_CACHE nor
\* FACULTY_SELECTIONS nor SELECTED_PROGRAM_IDS; a step that checks a cached
\* institution issues no GET for it and every group it renders for it has
\* exactly the faculties of FACULTY_SELECTIONS[inst] checked, and it renders
\* one unless it suspends on another institution's fetch.
C6_UncheckKeepsState ==
  [][ \A i \in Insts :
        /\ (checked[i] /\ ~checked'[i]) =>
              /\ PROGRAM_CACHE' = PROGRAM_CACHE
              /\ FACULTY_SELECTIONS' = FACULTY_SELECTIONS
              /\ SELECTED_PROGRAM_IDS' = SELECTED_PROGRAM_IDS
        /\ (~checked[i] /\ checked'[i] /\ i \in DOMAIN PROGRAM_CACHE) =>
              /\ \A g \in gets' \ gets : g.inst # i
              /\ i \in DOMAIN FACULTY_SELECTIONS /\ FACULTY_SELECTIONS'[i] = FACULTY_SELECTIONS[i]
              /\ \A w \in 1..Len(chipsRoot') :
                   chipsRoot'[w].inst = i => FacultiesRestored(chipsRoot'[w], FACULTY_SELECTIONS)
              /\ gets' \subseteq gets => \E w \in 1..Len(chipsRoot') : chipsRoot'[w].inst = i
    ]_vars

\* C6's case: technion is unchecked, its list cached and its faculty EE still
\* selected
C6_Witness ==
  /\ ~checked["technion"]
  /\ "technion" \in DOMAIN PROGRAM_CACHE
  /\ "technion" \in DOMAIN FACULTY_SELECTIONS /\ FACULTY_SELECTIONS["technion"] = {FacEE}

\* C7 (as claimed): once no onInstitutionsChanged invocation is pending, the
\* program-chips region holds exactly one group for each checked institution
\* and none for an unchecked one.
C7_GroupsMatchChecked ==
  NoHandlerPending =>
    /\ \A i \in Insts : checked[i] => Cardinality({w \in 1..Len(chipsRoot) : chipsRoot[w].inst = i}) = 1
    /\ \A w \in 1..Len(chipsRoot) : checked[chipsRoot[w].inst]

\* C8 (as claimed): the group titles appear in the order in which the user
\* checked the institutions. Stated for the states where the claim C7 holds,
\* so that only the order is at stake.
C8_UserSelectionOrder ==
  (C7_GroupsMatchChecked /\ NoHandlerPending) => GroupInsts = checkOrder

\* C8 (amended): an invocation has at most one GET in flight, the one for the
\* institution it awaits, and the groups it has appended stand in the document
\* order of the institution checkboxes, whatever the order the user checked
\* them in.
C8_DocumentOrder ==
  \A h \in Slots :
    /\ {g \in gets : g.h = h} = IF handlers[h].active THEN {[h |-> h, inst |-> Awaited(h)]} ELSE {}
    /\ \A w, v \in 1..Len(chipsRoot) :
         (chipsRoot[w].by = h /\ chipsRoot[v].by = h /\ w < v) => DocPos(chipsRoot[w].inst) < DocPos(chipsRoot[v].inst)

\* C8's case: the user checked huji before technion, and one invocation has
\* rendered technion's group before huji's
C8_Witness ==
  /\ checkOrder = <<"huji", "technion">>
  /\ GroupInsts = <<"technion", "huji">>
  /\ chipsRoot[1].by = chipsRoot[2].by
  /\ chipsRoot[1].title = "HaTechnion"

\* C9: every selected program id is the id of a program of a cached list.
C9_SelectedAreFetched ==
  \A id \in Range(SELECTED_PROGRAM_IDS) :
    \E i \in DOMAIN PROGRAM_CACHE : \E k \in 1..Len(PROGRAM_CACHE[i]) : PROGRAM_CACHE[i][k].id = id

\* C9's case: two programs are selected
C9_Witness == Len(SELECTED_PROGRAM_IDS) = 2

-----------------------------------------------------------------------------
(* Properties of the form and of the compute request *)

\* The number a raw field denotes lies in [lo, hi] (bounds in tenths)
DenotesWithin(raw, lo, hi) ==
  LET v == parseFloat(raw) IN raw # <<>> /\ ~v.nan /\ v.val >= lo /\ v.val <= hi

\* C1 (as claimed): no POST /compute is issued from a form state in which no
\* institution is checked, or the psychometric field is empty, not a number or
\* a number outside [200,800], or readSubjects reports an error.
C1_InvalidFormBlocks ==
  [][ postCount' # postCount =>
        /\ getSelectedInstitutions(checked) # <<>>
        /\ DenotesWithin(psy, 2000, 8000)
        /\ readSubjects(mandatoryRows, TRUE).errors = <<>>
        /\ readSubjects(electiveRows, FALSE).errors = <<>>
    ]_vars

\* C2: a click on #compute with an empty collected error list issues exactly
\* one POST /compute, whose program_ids are SELECTED_PROGRAM_IDS, whatever is
\* checked or rendered, and whose subjects are the mandatory entries followed
\* by the elective entries.
C2_PayloadOfPost ==
  [][ (OnCompute /\ CollectErrors(getSelectedInstitutions(checked), psy,
                                  readSubjects(mandatoryRows, TRUE),
                                  readSubjects(electiveRows, FALSE)) = <<>>) =>
        /\ Cardinality(inflight' \ inflight) = 1
        /\ inflight \subseteq inflight'
        /\ \A r \in inflight' \ inflight :
             /\ r.payload.program_ids = SELECTED_PROGRAM_IDS
             /\ r.payload.subjects = readSubjects(mandatoryRows, TRUE).subjects
                                       \o readSubjects(electiveRows, FALSE).subjects
    ]_vars

\* C2's case: a POST in flight carries P2, a program of technion only, while
\* only huji is checked, and three subjects, the elective one last
C2_Witness ==
  \E r \in inflight :
    /\ "P2" \in Range(r.payload.program_ids)
    /\ r.payload.institutions = <<"huji">>
    /\ Len(r.payload.subjects) = 3
    /\ r.payload.subjects[3].name = "physics"

\* The allowed units of the subject of this name
AllowedOf(name) ==
  LET defs == Subjects.mandatory \o Subjects.electives IN
  defs[CHOOSE k \in 1..Len(defs) : defs[k].name = name].allowed_units

\* C10: every POST /compute in flight carries exactly one entry for each
\* mandatory subject, and each of its entries has units among the allowed units
\* of its subject and a score from 0 to 100.
C10_PostedSubjectsValid ==
  \A r \in inflight :
    LET subs == r.payload.subjects IN
    /\ \A m \in 1..Len(Subjects.mandatory) :
         Cardinality({k \in 1..Len(subs) : subs[k].name = Subjects.mandatory[m].name}) = 1
    /\ \A k \in 1..Len(subs) :
         /\ ~subs[k].units.nan /\ subs[k].units.val \in Range(AllowedOf(subs[k].name))
         /\ ~subs[k].score.nan /\ subs[k].score.val >= 0 /\ subs[k].score.val <= 1000

\* C10's case: a POST is in flight with the entries of both mandatory subjects
\* and of the elective one
C10_Witness ==
  \E r \in inflight :
    {r.payload.subjects[k].name : k \in 1..Len(r.payload.subjects)} = {"math", "english", "physics"}

-----------------------------------------------------------------------------
(* Properties of readSubjects *)

\* Both raw fields of the row are non-empty
BothFilled(r) == r.units # <<>> /\ r.score # <<>>

\* The unit of the row is missing or is none of its allowed units
UnitBad(r) == r.units = <<>> \/ parseInt(r.units).nan \/ parseInt(r.units).val \notin Range(r.allowed)

\* The score of the row is missing, no number, or outside [0,100]
ScoreBad(r) ==
  r.score = <<>> \/ parseFloat(r.score).nan \/ parseFloat(r.score).val < 0 \/ parseFloat(r.score).val > 1000

\* How many of these errors are of one of these kinds and name this row
ErrorCount(errs, kinds, display) ==
  Cardinality({i \in 1..Len(errs) : errs[i].kind \in kinds /\ errs[i].arg = display})

\* C11: readSubjects(required=true) returns an entry for exactly the mandatory
\* rows whose two raw fields are non-empty, valid or not, in row order, and
\* reports for each row one unit error if its unit is missing or invalid and
\* one score error if its score is missing or invalid, and nothing else.
C11_MandatoryEntriesKept ==
  LET res == readSubjects(mandatoryRows, TRUE)
      filled == SelectSeq(mandatoryRows, BothFilled) IN
  /\ Len(res.subjects) = Len(filled)
  /\ \A k \in 1..Len(filled) :
       res.subjects[k] = [name |-> filled[k].name,
                          units |-> parseInt(filled[k].units),
                          score |-> parseFloat(filled[k].score)]
  /\ \A k \in 1..Len(mandatoryRows) :
       LET r == mandatoryRows[k] IN
       /\ ErrorCount(res.errors, {"unitsMissing", "unitsInvalid"}, r.display)
            = IF UnitBad(r) THEN 1 ELSE 0
       /\ ErrorCount(res.errors, {"scoreMissing", "scoreRange"}, r.display)
            = IF ScoreBad(r) THEN 1 ELSE 0
  /\ \A i \in 1..Len(res.errors) :
       /\ res.errors[i].kind \in {"unitsMissing", "unitsInvalid", "scoreMissing", "scoreRange"}
       /\ \E k \in 1..Len(mandatoryRows) : res.errors[i].arg = mandatoryRows[k].display

\* C11's case: a click on #compute has shown a unit error and a score error of
\* the first mandatory row, whose fields are both filled and both invalid, and
\* readSubjects returns an entry for that row
C11_Witness ==
  /\ BothFilled(mandatoryRows[1]) /\ UnitBad(mandatoryRows[1]) /\ ScoreBad(mandatoryRows[1])
  /\ ErrorCount(errorsShown, {"unitsInvalid"}, mandatoryRows[1].display) = 1
  /\ ErrorCount(errorsShown, {"scoreRange"}, mandatoryRows[1].display) = 1
  /\ \E k \in 1..Len(readSubjects(mandatoryRows, TRUE).subjects) :
       readSubjects(mandatoryRows, TRUE).subjects[k].name = mandatoryRows[1].name

\* The errors that name this row, in order
ErrorsOfRow(errs, display) == SelectSeq(errs, LAMBDA e : e.arg = display)

\* The mandatory rows whose unit selection is empty and whose score is "77"
UnitEmptyScore77 ==
  {k \in 1..Len(mandatoryRows) : mandatoryRows[k].units = <<>> /\ mandatoryRows[k].score = <<"7", "7">>}

\* C12 (as claimed): for a mandatory row X with the unit selection empty and
\* score "77", the errors of that row are exactly "no unit count selected for
\* X", and an entry for X is among the returned entries.
C12_UnitMissingEntryKept ==
  LET res == readSubjects(mandatoryRows, TRUE) IN
  \A k \in UnitEmptyScore77 :
    /\ ErrorsOfRow(res.errors, mandatoryRows[k].display)
         = << [kind |-> "unitsMissing", arg |-> mandatoryRows[k].display] >>
    /\ \E i \in 1..Len(res.subjects) : res.subjects[i].name = mandatoryRows[k].name

\* C12 (amended): for such a row the errors of that row are exactly "no unit
\* count selected for X", and no entry for X is returned: line 92 emits an
\* entry only when both raw fields are non-empty.
C12_UnitMissingNoEntry ==
  LET res == readSubjects(mandatoryRows, TRUE) IN
  \A k \in UnitEmptyScore77 :
    /\ ErrorsOfRow(res.errors, mandatoryRows[k].display)
         = << [kind |-> "unitsMissing", arg |-> mandatoryRows[k].display] >>
    /\ \A i \in 1..Len(res.subjects) : res.subjects[i].name # mandatoryRows[k].name

\* C12's case: a click on #compute has shown the missing-unit error, and no
\* other, of the first mandatory row, left with no unit and the score "77"
C12_Witness ==
  /\ 1 \in UnitEmptyScore77
  /\ ErrorsOfRow(errorsShown, mandatoryRows[1].display)
       = << [kind |-> "unitsMissing", arg |-> mandatoryRows[1].display] >>

\* The elective rows with exactly one of the unit and the score filled
HalfFilled ==
  {k \in 1..Len(electiveRows) : (electiveRows[k].units = <<>>) # (electiveRows[k].score = <<>>)}

\* C13 (as claimed): while an elective row has exactly one of its unit and its
\* score filled, readSubjects(required=false) reports an error for it, so no
\* POST /compute is issued.
C13_HalfFilledElectiveBlocks ==
  [][ HalfFilled # {} => postCount' = postCount ]_vars

\* C14: for elective validation, a row with both raw fields non-empty whose
\* unit is not allowed or whose score is no number from 0 to 100 yields no
\* entry and exactly the one error "<display> - invalid values"; a row whose
\* pair is valid yields exactly one entry, with the parsed values, and no error.
C14_ElectivePairJointlyValid ==
  LET res == readSubjects(electiveRows, FALSE) IN
  \A k \in 1..Len(electiveRows) :
    LET r == electiveRows[k]
        entries == SelectSeq(res.subjects, LAMBDA e : e.name = r.name) IN
    BothFilled(r) =>
      IF UnitBad(r) \/ ScoreBad(r)
      THEN /\ entries = <<>>
           /\ ErrorsOfRow(res.errors, r.display) = << [kind |-> "invalidValues", arg |-> r.display] >>
      ELSE /\ entries = << [name |-> r.name, units |-> parseInt(r.units), score |-> parseFloat(r.score)] >>
           /\ ErrorsOfRow(res.errors, r.display) = <<>>

\* C14's case: a click on #compute has shown the one error of an elective row
\* filled with a unit that is not allowed and the score "77"
C14_Witness ==
  /\ Len(electiveRows) = 1
  /\ electiveRows[1].units = <<"3">> /\ electiveRows[1].score = <<"7", "7">>
  /\ ErrorsOfRow(errorsShown, electiveRows[1].display)
       = << [kind |-> "invalidValues", arg |-> electiveRows[1].display] >>

-----------------------------------------------------------------------------
(* Properties of the elective chips *)

\* The electives area holds one row for each selected chip and no other row
RowsMatchChips ==
  /\ \A i, j \in 1..Len(electiveRows) : electiveRows[i].name = electiveRows[j].name => i = j
  /\ {electiveRows[i].name : i \in 1..Len(electiveRows)}
       = {electiveChips[k].def.name : k \in {c \in 1..Len(electiveChips) : electiveChips[c].selected}}

\* A chip that leaves the selected state leaves no row of its subject, and the
\* row of a chip that enters it has no unit and no score
ChipStepFresh ==
  \A k \in 1..Len(electiveChips) :
    LET name == electiveChips[k].def.name IN
    /\ (electiveChips[k].selected /\ ~electiveChips'[k].selected) =>
         \A i \in 1..Len(electiveRows') : electiveRows'[i].name # name
    /\ (~electiveChips[k].selected /\ electiveChips'[k].selected) =>
         \A i \in 1..Len(electiveRows') :
           electiveRows'[i].name = name =>
             electiveRows'[i].units = <<>> /\ electiveRows'[i].score = <<>>

\* C15: after any sequence of elective chip clicks the electives area holds
\* exactly one row for each selected chip and none for any other elective, so
\* no two rows of one subject coexist; a deselecting click leaves no row of the
\* chip, and the row a later click creates has an empty unit and score.
C15_RowsFollowChips == []RowsMatchChips /\ [][ChipStepFresh]_vars

\* C15's case: both chips are selected, the second one first; the row of the
\* first chip, created later, is empty beside a filled one
C15_Witness ==
  /\ Len(electiveChips) = 2 /\ Len(electiveRows) = 2
  /\ electiveRows[1].name = electiveChips[2].def.name
  /\ electiveRows[1].units # <<>>
  /\ electiveRows[2].name = electiveChips[1].def.name
  /\ electiveRows[2].units = <<>> /\ electiveRows[2].score = <<>>

-----------------------------------------------------------------------------
(* Properties of the compute request's end states *)

\* C16 (as claimed): every run of onCompute from the click clears the errors
\* and the results on display, so that what it leaves in #errors-list are its
\* own errors only and #results is empty.
C16_ComputeClearsResults ==
  [][ OnCompute =>
        /\ errorsShown' = CollectErrors(getSelectedInstitutions(checked), psy,
                                        readSubjects(mandatoryRows, TRUE),
                                        readSubjects(electiveRows, FALSE))
        /\ results' = NoResults
    ]_vars

-----------------------------------------------------------------------------
(* Properties of the displayed error list *)

UnitKinds == {"unitsMissing", "unitsInvalid"}
ScoreKinds == {"scoreMissing", "scoreRange"}

\* The place of an error in the claimed order: its group (institution,
\* psychometric, mandatory rows, elective rows), the position of its row in
\* its container, and unit before score
ErrorKey(e) ==
  LET group == CASE e.kind = "noInstitution" -> 1
                 [] e.kind \in {"psyMissing", "psyRange"} -> 2
                 [] e.kind \in UnitKinds \cup ScoreKinds -> 3
                 [] OTHER -> 4
      rows == IF group = 3 THEN mandatoryRows ELSE IF group = 4 THEN electiveRows ELSE <<>>
      row == IF rows = <<>> THEN 0 ELSE CHOOSE k \in 1..Len(rows) : rows[k].display = e.arg
      field == IF e.kind \in ScoreKinds THEN 2 ELSE 1 IN
  <<group, row, field>>

\* Lexicographic order of keys
KeyLess(a, b) ==
  \/ a[1] < b[1]
  \/ a[1] = b[1] /\ a[2] < b[2]
  \/ a[1] = b[1] /\ a[2] = b[2] /\ a[3] < b[3]

\* The errors the form calls for, as a set
ErrorsCalledFor ==
  (IF \A i \in Insts : ~checked[i] THEN {[kind |-> "noInstitution", arg |-> ""]} ELSE {})
  \cup (IF psy = <<>> THEN {[kind |-> "psyMissing", arg |-> ""]}
        ELSE IF parseInt(psy).nan \/ parseInt(psy).val < 200 \/ parseInt(psy).val > 800
        THEN {[kind |-> "psyRange", arg |-> ""]}
        ELSE {})
  \cup {[kind |-> IF mandatoryRows[k].units = <<>> THEN "unitsMissing" ELSE "unitsInvalid",
         arg |-> mandatoryRows[k].display] : k \in {i \in 1..Len(mandatoryRows) : UnitBad(mandatoryRows[i])}}
  \cup {[kind |-> IF mandatoryRows[k].score = <<>> THEN "scoreMissing" ELSE "scoreRange",
         arg |-> mandatoryRows[k].display] : k \in {i \in 1..Len(mandatoryRows) : ScoreBad(mandatoryRows[i])}}
  \cup {[kind |-> "invalidValues", arg |-> electiveRows[k].display] :
          k \in {i \in 1..Len(electiveRows) :
                   BothFilled(electiveRows[i]) /\ (UnitBad(electiveRows[i]) \/ ScoreBad(electiveRows[i]))}}

\* C18: the errors a blocked click on #compute shows are all the errors the
\* form calls for, each once, in this order: the institution error, the
\* psychometric error, the errors of the mandatory rows in row order with a
\* row's unit error before its score error, the errors of the elective rows in
\* row order.
C18_ErrorOrder ==
  [][ (OnCompute /\ postCount' = postCount) =>
        /\ Range(errorsShown') = ErrorsCalledFor
        /\ \A i, j \in 1..Len(errorsShown') :
             i < j => KeyLess(ErrorKey(errorsShown'[i]), ErrorKey(errorsShown'[j]))
    ]_vars

\* C18's case: a blocked click shows an institution error, a psychometric
\* error, both errors of each mandatory row and an elective error
C18_Witness ==
  /\ Len(errorsShown) = 7
  /\ errorsShown[1].kind = "noInstitution"
  /\ errorsShown[2].kind = "psyMissing"
  /\ errorsShown[3].kind \in UnitKinds /\ errorsShown[4].kind \in ScoreKinds
  /\ errorsShown[3].arg = errorsShown[4].arg
  /\ errorsShown[7].kind = "invalidValues"

\* C19: a stale compute response is not discarded. When the success response
\* of a request completes while #results shows the results of a later request,
\* #results ends up showing the results of the earlier request.
C19_StaleResponseShown ==
  [][ \A req \in inflight : \A o \in {"cards", "empty"} :
        (ComputeRespond(req, o) /\ results.kind # "none" /\ results.req > req.id) =>
          results' = [kind |-> IF o = "cards" THEN "cards" ELSE "placeholder", req |-> req.id]
    ]_vars

\* C19's case: two requests were issued and both have been answered with
\* success, the second one first: #results shows the results of the first
C19_Witness ==
  /\ postCount = 2 /\ inflight = {}
  /\ errorsShown = <<>>
  /\ results = [kind |-> "cards", req |-> 1]

-----------------------------------------------------------------------------
(* Properties of the program chips' visual state *)

\* C20 (as claimed): every rendered program chip is shown as selected if and
\* only if its program id is in SELECTED_PROGRAM_IDS.
C20_ChipsAgreeWithStore ==
  \A w \in 1..Len(chipsRoot) : \A c \in 1..Len(chipsRoot[w].programsArea) :
    LET chip == chipsRoot[w].programsArea[c] IN
    chip.kind = "chip" => (chip.selected <=> chip.programId \in Range(SELECTED_PROGRAM_IDS))

=============================================================================
